---- MODULE Spec2Model ----
(***************************************************************************)
(* A model of img_tools: the duplicate-resolution policy of                *)
(* processor/duplication.py and the directory batch pipeline of the        *)
(* processors.                                                             *)
(*                                                                         *)
(* Specifications:                                                         *)
(*   SpecResolve  Duplication._resolve_duplicates applied to bounded       *)
(*                inputs (directory content, duplicate mapping, mode)      *)
(*   SpecDedup    Duplication.process on one directory                     *)
(*   SpecBatch    process_dir of the five processors on a small tree, the  *)
(*                worker units interleaved step by step                    *)
(*   SpecCancel   SpecBatch with a KeyboardInterrupt in the calling process *)
(*   SpecVanish   the override delete loop of Duplication.process while    *)
(*                another process removes files                            *)
(*   SpecRace     _resolve_duplicates group by group while another process *)
(*                removes files                                            *)
(*   SpecProcess  process of rotation and compression on single files      *)
(*   SpecDiscover IOuitls.get_img_paths_by_dir on bounded directories      *)
(*   SpecNaming   the directory each directory operation returns           *)
(***************************************************************************)
EXTENDS Integers, Sequences, FiniteSets, TLC

\* ------------------------------------------------------------------ bounds
MaxSize == 2         \* byte sizes are 1..MaxSize
MaxGroups == 2       \* entries of the duplicate mapping
MaxMatches == 2      \* matches listed for one representative
MaxFiles == 2        \* image files in the tree handed to process_dir
MaxDim == 2          \* width and height of an image, in pixels
MaxCalls == 2        \* calls of process on one path

\* ------------------------------------------------------------- file names
\* A file name is its sequence of character codes (ASCII), so that Python's
\* str ordering can be modelled as it is computed.
a_png == <<97, 46, 112, 110, 103>>                         \* "a.png"
a_dup_png == <<97, 95, 100, 117, 112, 46, 112, 110, 103>>  \* "a_dup.png"
b_png == <<98, 46, 112, 110, 103>>                         \* "b.png"
old_png == <<111, 108, 100, 46, 112, 110, 103>>            \* "old.png"

\* Names the source directory may hold.
FileNames == {a_png, a_dup_png, b_png}
\* Names the output directory may hold: copies, and a file left by an
\* earlier run.
OutNames == FileNames \cup {old_png}

\* Python's str "<": code point by code point, a proper prefix is smaller.
StrLess(s, t) ==
    \E i \in 1..Len(t) :
        /\ \A j \in 1..(i - 1) : j <= Len(s) /\ s[j] = t[j]
        /\ (i > Len(s) \/ s[i] < t[i])

\* ------------------------------------------------------------------ enums
SaveFileMode ==
    {"SaveFirst", "SaveLast", "SaveFirstAndLast", "SaveBigger", "SaveSmaller"}

\* ------------------------------------------------------- python built-ins
\* sorted(xs, key=lambda p: p.name): a stable sort; x goes after every
\* element whose key is not greater.
RECURSIVE InsertByName(_, _)
InsertByName(x, s) ==
    IF s = <<>> THEN <<x>>
    ELSE IF StrLess(x, Head(s)) THEN <<x>> \o s
    ELSE <<Head(s)>> \o InsertByName(x, Tail(s))

\* Mutant: the list is taken in listing order, not sorted.
sorted_by_name_unsorted(xs) == xs

RECURSIVE sorted_by_name(_)
sorted_by_name(xs) ==
    IF xs = <<>> THEN <<>>
    ELSE InsertByName(xs[Len(xs)], sorted_by_name(SubSeq(xs, 1, Len(xs) - 1)))

\* max(xs, key=...): the first element among those with the largest key.
RECURSIVE MaxFrom(_, _, _)
MaxFrom(best, rest, key) ==
    IF rest = <<>> THEN best
    ELSE MaxFrom(IF key[Head(rest)] > key[best] THEN Head(rest) ELSE best,
                 Tail(rest), key)

\* Mutant: of the elements that tie, the last one wins.
RECURSIVE MaxFromLast(_, _, _)
MaxFromLast(best, rest, key) ==
    IF rest = <<>> THEN best
    ELSE MaxFromLast(IF key[Head(rest)] >= key[best] THEN Head(rest) ELSE best,
                     Tail(rest), key)

max_by_size_last(xs, key) == MaxFromLast(Head(xs), Tail(xs), key)

max_by_size(xs, key) == MaxFrom(Head(xs), Tail(xs), key)

\* min(xs, key=...): the first element among those with the smallest key.
RECURSIVE MinFrom(_, _, _)
MinFrom(best, rest, key) ==
    IF rest = <<>> THEN best
    ELSE MinFrom(IF key[Head(rest)] < key[best] THEN Head(rest) ELSE best,
                 Tail(rest), key)

min_by_size(xs, key) == MinFrom(Head(xs), Tail(xs), key)

\* Python values that _resolve_duplicates compares: a Path or a list of Paths.
PathVal(n) == [kind |-> "Path", name |-> n, items |-> <<>>]
ListVal(l) == [kind |-> "list", name |-> <<>>, items |-> l]

\* Python's "!=" between a Path and another value: values of different types
\* are never equal.
PyNotEqual(x, y) == IF x.kind # y.kind THEN TRUE ELSE x # y

SeqToSet(s) == {s[i] : i \in 1..Len(s)}

\* --------------------------------------------------------------- variables
VARIABLES
    fs,                     \* img_dir: file name -> byte size, 0 = no such file
    raw_duplicates,         \* the hasher's mapping: <<[key, matches], ...>>
    save_file_mode,
    files_to_delete_final,  \* result of _resolve_duplicates
    group_log,              \* per group: the filtered members, what was kept, what was marked
    rpc,                    \* "idle" | "call" | "returned"
    \* Duplication.process
    root_kind,              \* what img_dir is: "dir" | "file" | "missing"
    subdir,                 \* img_dir holds a sub-directory
    out,                    \* the sibling <name>_deduplicated
    override,
    files_to_remove_set,    \* the global delete-set process works from
    todo,                   \* what the running for-loop has still to visit
    branch,                 \* "none" | "no_images" | "no_duplicates" | "resolved"
    ret,                    \* "none" | "img_dir" | "deduplicated"
    dpc,                    \* "idle" | "call" | "deleting" | "copying" | "returned" | "raised"
    fs0, out0,              \* img_dir and the sibling as they were at the call
    \* process_dir of the five processors
    op,                     \* which processor's process_dir runs
    compression,            \* CompressionMode (compression only)
    recursion,
    tree,                   \* the files of the input tree and of the output tree
    dirs,                   \* the directories that exist
    initial_files,          \* detect_new_files: the snapshot of its first next()
    units,                  \* discovered path -> state of its worker unit
    results,                \* the outcomes, in completion order
    bpc,                    \* "idle" | "call" | "running" | "shutdown" | "returned" | "raised" | "interrupted"
    bret,                   \* what process_dir returned
    tree0,                  \* the files at the call
    \* one call of process on a single file
    args,                   \* img_path, orientation, rotation_mode
    image,                  \* the image at img_path: width, height, angle, has_alpha, mode_fits
    last,                   \* the last call: what the codecs did and what came back
    ppc,                    \* "idle" | "call" | "returned" | "raised"
    calls,                  \* calls made so far
    \* _resolve_duplicates step by step, the directory changing under it
    gi,                     \* the item of raw_duplicates the loop is at
    filtered,               \* current_group_paths after the existence filter
    \* one call of a function that only computes a value
    fn_args,                \* the arguments
    fn_value,               \* the value returned
    fpc                     \* "idle" | "call" | "returned"

resolveVars ==
    <<fs, raw_duplicates, save_file_mode, files_to_delete_final, group_log, rpc>>

dedupVars ==
    <<root_kind, subdir, out, override, files_to_remove_set, todo, branch, ret,
      dpc, fs0, out0>>

batchVars ==
    <<op, compression, recursion, tree, dirs, initial_files, units, results,
      bpc, bret, tree0>>

processVars == <<args, image, last, ppc, calls>>

raceVars == <<gi, filtered>>

pureVars == <<fn_args, fn_value, fpc>>

vars == <<resolveVars, dedupVars, batchVars, processVars, raceVars, pureVars>>

\* ------------------------------------------------- _resolve_duplicates
Exists(dir, n) == dir[n] > 0

\* [img_dir / main] + [img_dir / rel for rel in duplicates], then the
\* exists()/is_file() filter.
current_group_paths(dir, g) ==
    SelectSeq(<<g.key>> \o g.matches, LAMBDA n : Exists(dir, n))

\* The match statement: the value bound to file_to_keep_in_group.
file_to_keep_in_group(dir, paths, mode) ==
    CASE mode = "SaveFirst" -> PathVal(sorted_by_name(paths)[1])
      [] mode = "SaveLast" -> PathVal(sorted_by_name(paths)[Len(paths)])
      [] mode = "SaveFirstAndLast" ->
            ListVal(<<sorted_by_name(paths)[1], sorted_by_name(paths)[Len(paths)]>>)
      [] mode = "SaveBigger" -> PathVal(max_by_size(paths, dir))
      [] mode = "SaveSmaller" -> PathVal(min_by_size(paths, dir))

\* Mutant: a group marks nothing for deletion.
group_delete_set_nothing(paths, keep) == {}

\* The generator handed to files_to_delete_final.update for one group.
group_delete_set(paths, keep) ==
    {p \in SeqToSet(paths) : PyNotEqual(PathVal(p), keep)}

\* Mutant: the empty group is not skipped.
skip_group_never(paths) == FALSE

\* if not current_group_paths: continue
skip_group(paths) == paths = <<>>

\* One iteration of the loop over raw_duplicates.items(): what it logs.
\* sorted([])[0] and max([]) raise, so an empty group that reaches the match
\* statement ends the call with an exception.
GroupResult(dir, g, mode) ==
    LET paths == current_group_paths(dir, g) IN
    IF skip_group(paths)
    THEN [paths |-> paths, keep |-> ListVal(<<>>), deleted |-> {},
          skipped |-> TRUE, raised |-> FALSE]
    ELSE IF paths = <<>>
    THEN [paths |-> paths, keep |-> ListVal(<<>>), deleted |-> {},
          skipped |-> FALSE, raised |-> TRUE]
    ELSE LET keep == file_to_keep_in_group(dir, paths, mode) IN
         [paths |-> paths, keep |-> keep,
          deleted |-> group_delete_set(paths, keep),
          skipped |-> FALSE, raised |-> FALSE]

resolve_log(dir, dups, mode) ==
    [i \in 1..Len(dups) |-> GroupResult(dir, dups[i], mode)]

resolve_duplicates(dir, dups, mode) ==
    UNION {resolve_log(dir, dups, mode)[i].deleted : i \in 1..Len(dups)}

\* An exception leaves the loop.
resolve_raises(dir, dups, mode) ==
    \E i \in 1..Len(dups) : resolve_log(dir, dups, mode)[i].raised

\* ------------------------------------------------------------ input space
Sizes == 0..MaxSize
Directories == [FileNames -> Sizes]

MatchLists(key) ==
    {l \in UNION {[1..n -> FileNames \ {key}] : n \in 0..MaxMatches} :
        \A i, j \in 1..Len(l) : i # j => l[i] # l[j]}

Groups == UNION {{[key |-> k, matches |-> l] : l \in MatchLists(k)} : k \in FileNames}

\* A dict: the keys are distinct, the items are iterated in insertion order.
Mappings ==
    {m \in UNION {[1..n -> Groups] : n \in 0..MaxGroups} :
        \A i, j \in 1..Len(m) : i # j => m[i].key # m[j].key}

\* ------------------------------------------------------ directory values
NoFiles == [n \in OutNames |-> 0]
OutAbsent == [exists |-> FALSE, files |-> NoFiles, subdir |-> FALSE]
OutEmpty == [exists |-> TRUE, files |-> NoFiles, subdir |-> FALSE]
\* The sibling as an earlier run may have left it.
OutStale == [exists |-> TRUE, files |-> [NoFiles EXCEPT ![old_png] = 1], subdir |-> FALSE]

IdleResolve ==
    /\ raw_duplicates = <<>>
    /\ files_to_delete_final = {}
    /\ group_log = <<>>
    /\ rpc = "idle"

IdleDedup ==
    /\ root_kind = "dir"
    /\ subdir = FALSE
    /\ out = OutAbsent
    /\ override = TRUE
    /\ files_to_remove_set = {}
    /\ todo = {}
    /\ branch = "none"
    /\ ret = "none"
    /\ dpc = "idle"
    /\ fs0 = fs
    /\ out0 = out

IdleBatch ==
    /\ op = "rotation"
    /\ compression = "Best"
    /\ recursion = TRUE
    /\ tree = <<>>
    /\ dirs = {}
    /\ initial_files = {}
    /\ units = <<>>
    /\ results = <<>>
    /\ bpc = "idle"
    /\ bret = "none"
    /\ tree0 = <<>>

IdleProcess ==
    /\ args = <<>>
    /\ image = <<>>
    /\ last = <<>>
    /\ ppc = "idle"
    /\ calls = 0

IdleRace ==
    /\ gi = 0
    /\ filtered = <<>>

IdlePure ==
    /\ fn_args = <<>>
    /\ fn_value = <<>>
    /\ fpc = "idle"

\* ----------------------------------------------------------- SpecResolve
InitResolve ==
    /\ fs \in Directories
    /\ raw_duplicates \in Mappings
    /\ save_file_mode \in SaveFileMode
    /\ files_to_delete_final = {}
    /\ group_log = <<>>
    /\ rpc = "call"
    /\ IdleDedup
    /\ IdleBatch
    /\ IdleProcess
    /\ IdleRace
    /\ IdlePure

ResolveCall ==
    /\ rpc = "call"
    /\ group_log' = resolve_log(fs, raw_duplicates, save_file_mode)
    /\ IF resolve_raises(fs, raw_duplicates, save_file_mode)
       THEN /\ files_to_delete_final' = {}
            /\ rpc' = "raised"
       ELSE /\ files_to_delete_final' = resolve_duplicates(fs, raw_duplicates, save_file_mode)
            /\ rpc' = "returned"
    /\ UNCHANGED <<fs, raw_duplicates, save_file_mode>>
    /\ UNCHANGED <<dedupVars, batchVars, processVars, raceVars, pureVars>>

NextResolve == ResolveCall

SpecResolve == InitResolve /\ [][NextResolve]_vars

\* ------------------------------------------------------ Duplication.process
\* The mappings a hasher can return for the files it encoded.
MappingsOver(encoded) ==
    {m \in Mappings :
        \A i \in 1..Len(m) :
            m[i].key \in encoded /\ SeqToSet(m[i].matches) \subseteq encoded}

ExistingFiles(dir) == {n \in FileNames : Exists(dir, n)}

\* file_to_delete.unlink()
unlink(dir, n) == [dir EXCEPT ![n] = 0]

\* Mutant: the OSError of unlink is swallowed and the loop goes on.
unlink_error_handler_swallow == "deleting"

\* except OSError: raise OSError(...)
unlink_error_handler == "raised"

\* shutil.rmtree(output) when it exists, then mkdir(parents=True, exist_ok=True)
rmtree_mkdir(o) == OutEmpty

\* output_path.mkdir(parents=True, exist_ok=True) alone
mkdir_exist_ok(o) == [o EXCEPT !.exists = TRUE]

\* shutil.rmtree(output) when it exists, then shutil.copytree(img_dir, output)
rmtree_copytree(o, dir, sub) ==
    [exists |-> TRUE,
     files |-> [n \in OutNames |-> IF n \in FileNames THEN dir[n] ELSE 0],
     subdir |-> sub]

\* Mutant: every regular file is listed, the delete-set is not consulted.
file_list_unfiltered(dir, remove) == ExistingFiles(dir)

\* [item for item in img_dir.iterdir() if item.is_file() and item not in files_to_remove_set]
file_list(dir, remove) == {n \in ExistingFiles(dir) : n \notin remove}

\* shutil.copy2(item, final_output_path / item.name)
copy2(o, dir, n) == [o EXCEPT !.files[n] = dir[n]]

InitDedup ==
    /\ root_kind \in {"dir", "file", "missing"}
    /\ fs \in Directories
    /\ subdir \in BOOLEAN
    /\ root_kind # "dir" => (fs = [n \in FileNames |-> 0] /\ subdir = FALSE)
    /\ out \in {OutAbsent, OutEmpty, OutStale}
    /\ override \in BOOLEAN
    /\ save_file_mode \in SaveFileMode
    /\ files_to_remove_set = {}
    /\ todo = {}
    /\ branch = "none"
    /\ ret = "none"
    /\ dpc = "call"
    /\ fs0 = fs
    /\ out0 = out
    /\ IdleResolve
    /\ IdleBatch
    /\ IdleProcess
    /\ IdleRace
    /\ IdlePure

\* if not img_dir.is_dir(): raise ValueError
ProcessInvalid ==
    /\ dpc = "call"
    /\ root_kind # "dir"
    /\ dpc' = "raised"
    /\ UNCHANGED <<root_kind, subdir, out, override, files_to_remove_set, todo,
                   branch, ret, fs0, out0>>
    /\ UNCHANGED <<resolveVars, batchVars, processVars, raceVars, pureVars>>

\* encode_images() returned nothing
ProcessNoImages ==
    /\ dpc = "call"
    /\ root_kind = "dir"
    /\ branch' = "no_images"
    /\ IF override
       THEN /\ ret' = "img_dir"
            /\ out' = out
       ELSE /\ ret' = "deduplicated"
            /\ out' = mkdir_exist_ok(out)
    /\ dpc' = "returned"
    /\ UNCHANGED <<root_kind, subdir, override, files_to_remove_set, todo, fs0, out0>>
    /\ UNCHANGED <<resolveVars, batchVars, processVars, raceVars, pureVars>>

\* encode_images() returned encodings, find_duplicates() an empty mapping
ProcessNoDuplicates ==
    /\ dpc = "call"
    /\ root_kind = "dir"
    /\ ExistingFiles(fs) # {}
    /\ branch' = "no_duplicates"
    /\ IF override
       THEN /\ ret' = "img_dir"
            /\ out' = out
       ELSE /\ ret' = "deduplicated"
            /\ out' = rmtree_copytree(out, fs, subdir)
    /\ dpc' = "returned"
    /\ UNCHANGED <<root_kind, subdir, override, files_to_remove_set, todo, fs0, out0>>
    /\ UNCHANGED <<resolveVars, batchVars, processVars, raceVars, pureVars>>

\* find_duplicates() returned a non-empty mapping: _resolve_duplicates, then
\* the entry into the delete loop (override) or the copy loop.
ProcessResolve ==
    /\ dpc = "call"
    /\ root_kind = "dir"
    /\ \E encoded \in (SUBSET ExistingFiles(fs)) \ {{}} :
       \E m \in MappingsOver(encoded) \ {<<>>} :
          LET remove == resolve_duplicates(fs, m, save_file_mode) IN
          /\ files_to_remove_set' = remove
          /\ IF override
             THEN /\ todo' = remove
                  /\ out' = out
                  /\ dpc' = "deleting"
             ELSE /\ out' = rmtree_mkdir(out)
                  /\ todo' = file_list(fs, remove)
                  /\ dpc' = "copying"
    /\ branch' = "resolved"
    /\ UNCHANGED <<root_kind, subdir, override, ret, fs0, out0>>
    /\ UNCHANGED <<resolveVars, batchVars, processVars, raceVars, pureVars>>

\* One iteration of "for file_to_delete in files_to_remove_set" (a set: any
\* order), the unlink succeeding.
DeleteStep ==
    /\ dpc = "deleting"
    /\ \E n \in todo :
          /\ fs' = IF Exists(fs, n) THEN unlink(fs, n) ELSE fs
          /\ todo' = todo \ {n}
    /\ UNCHANGED <<raw_duplicates, save_file_mode, files_to_delete_final, group_log, rpc>>
    /\ UNCHANGED <<batchVars, processVars, raceVars, pureVars>>
    /\ UNCHANGED <<root_kind, subdir, out, override, files_to_remove_set, branch,
                   ret, dpc, fs0, out0>>

\* One iteration in which unlink raises OSError.
DeleteStepFails ==
    /\ dpc = "deleting"
    /\ \E n \in todo :
          /\ Exists(fs, n)
          /\ todo' = todo \ {n}
    /\ dpc' = unlink_error_handler
    /\ UNCHANGED <<resolveVars, batchVars, processVars, raceVars, pureVars>>
    /\ UNCHANGED <<root_kind, subdir, out, override, files_to_remove_set, branch,
                   ret, fs0, out0>>

DeleteDone ==
    /\ dpc = "deleting"
    /\ todo = {}
    /\ ret' = "img_dir"
    /\ dpc' = "returned"
    /\ UNCHANGED <<resolveVars, batchVars, processVars, raceVars, pureVars>>
    /\ UNCHANGED <<root_kind, subdir, out, override, files_to_remove_set, todo,
                   branch, fs0, out0>>

\* One iteration of "for item in file_list", copy2 succeeding.
CopyStep ==
    /\ dpc = "copying"
    /\ \E n \in todo :
          /\ out' = copy2(out, fs, n)
          /\ todo' = todo \ {n}
    /\ UNCHANGED <<resolveVars, batchVars, processVars, raceVars, pureVars>>
    /\ UNCHANGED <<root_kind, subdir, override, files_to_remove_set, branch, ret,
                   dpc, fs0, out0>>

\* One iteration in which copy2 raises.
CopyStepFails ==
    /\ dpc = "copying"
    /\ todo # {}
    /\ dpc' = "raised"
    /\ UNCHANGED <<resolveVars, batchVars, processVars, raceVars, pureVars>>
    /\ UNCHANGED <<root_kind, subdir, out, override, files_to_remove_set, todo,
                   branch, ret, fs0, out0>>

CopyDone ==
    /\ dpc = "copying"
    /\ todo = {}
    /\ ret' = "deduplicated"
    /\ dpc' = "returned"
    /\ UNCHANGED <<resolveVars, batchVars, processVars, raceVars, pureVars>>
    /\ UNCHANGED <<root_kind, subdir, out, override, files_to_remove_set, todo,
                   branch, fs0, out0>>

NextDedup ==
    \/ ProcessInvalid
    \/ ProcessNoImages
    \/ ProcessNoDuplicates
    \/ ProcessResolve
    \/ DeleteStep
    \/ DeleteStepFails
    \/ DeleteDone
    \/ CopyStep
    \/ CopyStepFails
    \/ CopyDone

SpecDedup == InitDedup /\ [][NextDedup]_vars

\* ------------------- the delete loop while another process removes files
InitVanish ==
    /\ InitDedup
    /\ root_kind = "dir"
    /\ override

\* Another process removes a file of img_dir while the loop runs.
VanishFile ==
    /\ dpc = "deleting"
    /\ \E n \in ExistingFiles(fs) : fs' = unlink(fs, n)
    /\ UNCHANGED <<raw_duplicates, save_file_mode, files_to_delete_final, group_log, rpc>>
    /\ UNCHANGED <<batchVars, processVars, raceVars, pureVars>>
    /\ UNCHANGED <<root_kind, subdir, out, override, files_to_remove_set, todo,
                   branch, ret, dpc, fs0, out0>>

\* One iteration in which the file is there for file_to_delete.exists() and
\* gone for file_to_delete.unlink(): FileNotFoundError is an OSError, so the
\* handler of the loop takes it.
DeleteStepVanished ==
    /\ dpc = "deleting"
    /\ \E n \in todo :
          /\ Exists(fs, n)
          /\ fs' = unlink(fs, n)
          /\ todo' = todo \ {n}
    /\ dpc' = unlink_error_handler
    /\ UNCHANGED <<raw_duplicates, save_file_mode, files_to_delete_final, group_log, rpc>>
    /\ UNCHANGED <<batchVars, processVars, raceVars, pureVars>>
    /\ UNCHANGED <<root_kind, subdir, out, override, files_to_remove_set, branch,
                   ret, fs0, out0>>

NextVanish ==
    \/ ProcessResolve
    \/ VanishFile
    \/ DeleteStep
    \/ DeleteStepVanished
    \/ DeleteDone

SpecVanish == InitVanish /\ [][NextVanish]_vars

\* ------------------------- _resolve_duplicates while the directory changes
InitRace ==
    /\ fs \in {d \in Directories : \A n \in FileNames : Exists(d, n)}
    /\ raw_duplicates \in Mappings
    /\ save_file_mode \in SaveFileMode
    /\ files_to_delete_final = {}
    /\ group_log = <<>>
    /\ rpc = "loop"
    /\ gi = 1
    /\ filtered = <<>>
    /\ IdleDedup
    /\ IdleBatch
    /\ IdleProcess
    /\ IdlePure

\* Another process removes a file of img_dir.
ExternalDelete ==
    /\ rpc \in {"loop", "select"}
    /\ \E n \in ExistingFiles(fs) : fs' = unlink(fs, n)
    /\ UNCHANGED <<raw_duplicates, save_file_mode, files_to_delete_final, group_log,
                   rpc, gi, filtered>>
    /\ UNCHANGED <<dedupVars, batchVars, processVars, pureVars>>

\* The head of one iteration: the group's paths, the exists()/is_file()
\* filter, and "if not current_group_paths: continue".
LoopFilter ==
    /\ rpc = "loop"
    /\ gi <= Len(raw_duplicates)
    /\ LET paths == current_group_paths(fs, raw_duplicates[gi]) IN
          IF skip_group(paths)
          THEN /\ gi' = gi + 1
               /\ group_log' = Append(group_log,
                                  [paths |-> <<>>, present |-> <<>>, deleted |-> {}])
               /\ UNCHANGED <<filtered, rpc>>
          ELSE /\ filtered' = paths
               /\ rpc' = "select"
               /\ UNCHANGED <<gi, group_log>>
    /\ UNCHANGED <<fs, raw_duplicates, save_file_mode, files_to_delete_final>>
    /\ UNCHANGED <<dedupVars, batchVars, processVars, pureVars>>

\* p.stat() raises FileNotFoundError for a path that is no longer there.
stat_raises(dir, paths, mode) ==
    /\ mode \in {"SaveBigger", "SaveSmaller"}
    /\ \E i \in 1..Len(paths) : ~Exists(dir, paths[i])

\* sorted([])[0] raises IndexError, max([]) and min([]) raise ValueError.
select_raises(dir, paths, mode) == paths = <<>> \/ stat_raises(dir, paths, mode)

\* The match statement and files_to_delete_final.update for the group.
LoopSelect ==
    /\ rpc = "select"
    /\ ~select_raises(fs, filtered, save_file_mode)
    /\ LET keep == file_to_keep_in_group(fs, filtered, save_file_mode)
           deleted == group_delete_set(filtered, keep)
       IN  /\ files_to_delete_final' = files_to_delete_final \cup deleted
           /\ group_log' = Append(group_log,
                              [paths |-> filtered,
                               present |-> SelectSeq(filtered, LAMBDA n : Exists(fs, n)),
                               deleted |-> deleted])
    /\ gi' = gi + 1
    /\ filtered' = <<>>
    /\ rpc' = "loop"
    /\ UNCHANGED <<fs, raw_duplicates, save_file_mode>>
    /\ UNCHANGED <<dedupVars, batchVars, processVars, pureVars>>

\* max()/min() calls the key on a member that has vanished, or the match
\* statement is reached with an empty list: the exception leaves
\* _resolve_duplicates.
LoopSelectRaises ==
    /\ rpc = "select"
    /\ select_raises(fs, filtered, save_file_mode)
    /\ rpc' = "raised"
    /\ UNCHANGED <<fs, raw_duplicates, save_file_mode, files_to_delete_final, group_log,
                   gi, filtered>>
    /\ UNCHANGED <<dedupVars, batchVars, processVars, pureVars>>

\* return files_to_delete_final
LoopReturn ==
    /\ rpc = "loop"
    /\ gi > Len(raw_duplicates)
    /\ rpc' = "returned"
    /\ UNCHANGED <<fs, raw_duplicates, save_file_mode, files_to_delete_final, group_log,
                   gi, filtered>>
    /\ UNCHANGED <<dedupVars, batchVars, processVars, pureVars>>

NextRace ==
    \/ ExternalDelete
    \/ LoopFilter
    \/ LoopSelect
    \/ LoopSelectRaises
    \/ LoopReturn

SpecRace == InitRace /\ [][NextRace]_vars

\* ------------------------------------------------------------- process_dir
\* A path is its directory (the components below the common parent), the
\* stem as the pieces it was built from, and the suffix.
Path(d, s, e) == [dir |-> d, stem |-> s, ext |-> e]

NoPath == Path(<<>>, <<>>, "")

\* img_dir_path, a sub-directory of it, and the sibling output_dir
img_dir_path == <<"src">>
sub_dir == <<"src", "sub">>
output_dir == <<"out">>

Operations == {"compression", "rotation", "format_conversion", "super_resolution", "dedup"}

CompressionMode == {"Fastest", "Smallest", "Best"}

\* f".{target_format.lower()}" for the target_format given to FormatConversion
target_suffix == ".webp"

\* img.format of a file written with this suffix
format_of(e) ==
    CASE e = ".png" -> "PNG"
      [] e = ".jpg" -> "JPEG"
      [] e = ".jpeg" -> "JPEG"
      [] e = ".webp" -> "WEBP"

\* f".{target_format.lower()}" for a Pillow format name
suffix_of(f) ==
    CASE f = "PNG" -> ".png"
      [] f = "JPEG" -> ".jpeg"
      [] f = "WEBP" -> ".webp"

\* Path.with_suffix
with_suffix(p, e) == [p EXCEPT !.ext = e]

\* img_path.with_stem(f"{img_path.stem}{tag}")
with_stem_tag(p, tag) == [p EXCEPT !.stem = Append(@, tag)]

\* str.removesuffix("_out") on a stem
removesuffix_out(s) ==
    IF s # <<>> /\ s[Len(s)] = "_out" THEN SubSeq(s, 1, Len(s) - 1) ELSE s

\* the glob pattern "*_out*" on a file name
matches_out(p) == \E i \in 1..Len(p.stem) : p.stem[i] = "_out"

\* d is r or lies below r
IsUnder(d, r) == Len(d) >= Len(r) /\ SubSeq(d, 1, Len(r)) = r

\* path.relative_to(base), as a directory
relative_to(d, base) == SubSeq(d, Len(base) + 1, Len(d))

\* Path.parent of a directory
parent(d) == SubSeq(d, 1, Len(d) - 1)

\* ---- the file tree: a function from the paths that exist to their content
Put(t, p, c) == (p :> c) @@ t

Del(t, p) == [q \in DOMAIN t \ {p} |-> t[q]]

\* Content: the input file it derives from, the operation that wrote it, and
\* the container format of the bytes.
Content(src, by, fmt) == [of |-> src, by |-> by, fmt |-> fmt]

Orig(p) == Content(p, "orig", format_of(p.ext))

\* A file left in output_dir by an earlier run.
stale_file == Path(output_dir, <<"old">>, ".png")

\* The image files an input tree may hold: two of one stem, one in a
\* sub-directory, and files that carry the name of an intermediate file.
CandidateFiles ==
    { Path(img_dir_path, <<"a">>, ".png"),
      Path(img_dir_path, <<"a">>, ".jpg"),
      Path(sub_dir, <<"a">>, ".png"),
      Path(img_dir_path, <<"a", "_out">>, ".png"),
      Path(img_dir_path, <<"a", "_compressed">>, ".png"),
      Path(img_dir_path, <<"a", "_out">>, ".webp") }

InputTrees == {S \in SUBSET CandidateFiles : Cardinality(S) <= MaxFiles}

\* shutil.rmtree(d)
rmtree(t, d) == [q \in {p \in DOMAIN t : ~IsUnder(p.dir, d)} |-> t[q]]

rmtree_dirs(ds, d) == {x \in ds : ~IsUnder(x, d)}

\* mkdir(parents=True, exist_ok=True)
mkdir_parents(ds, d) == ds \cup {SubSeq(d, 1, i) : i \in 1..Len(d)}

\* constants.COMMON_IMAGE_SUFFIXES
COMMON_IMAGE_SUFFIXES == {".jpg", ".jpeg", ".png", ".gif", ".bmp", ".webp"}

\* str.lower() on the suffixes that occur
lower(e) ==
    CASE e = ".PNG" -> ".png"
      [] e = ".Jpg" -> ".jpg"
      [] OTHER -> e

\* suffix if suffix else constants.COMMON_IMAGE_SUFFIXES
suffix_allowed(suffix) == IF suffix = {} THEN COMMON_IMAGE_SUFFIXES ELSE suffix

\* IOuitls.get_img_paths_by_dir; suffix = {} stands for None
get_img_paths_by_dir(t, d, rec, suffix) ==
    {p \in DOMAIN t :
        /\ IF rec THEN IsUnder(p.dir, d) ELSE p.dir = d
        /\ lower(p.ext) \in suffix_allowed(suffix)}

\* IOuitls.detect_new_files, first next(): the direct files of the directory
direct_files(t, d) == {p \in DOMAIN t : p.dir = d}

\* IOuitls.detect_new_files, second next()
newly_added_files(t, d, initial) == direct_files(t, d) \ initial

\* Rotation: output_dir / img_path.relative_to(img_dir_path)
rotation_target(p) == [p EXCEPT !.dir = output_dir \o relative_to(@, img_dir_path)]

\* FormatConversion: output_dir / img_path.relative_to(original_dir.parent).parent
conversion_target_dir(p) == output_dir \o relative_to(p.dir, parent(p.dir))

\* FormatConversion: target_dir / f"{img_path.stem}.{target_format}"
conversion_final_path(p) == Path(conversion_target_dir(p), p.stem, target_suffix)

\* Compression: output_dir / img_path.name
compression_target(p) == [p EXCEPT !.dir = output_dir]

Submitted == [pc |-> "submitted", tmp |-> NoPath, failed |-> FALSE]

InitBatch ==
    /\ op \in Operations
    /\ compression \in CompressionMode
    /\ op # "compression" => compression = "Best"
    /\ recursion \in BOOLEAN
    /\ op = "dedup" => recursion = TRUE
    /\ root_kind \in {"dir", "file", "missing"}
    /\ override \in BOOLEAN
    /\ \E S \in InputTrees, stale \in BOOLEAN :
          /\ root_kind # "dir" => S = {}
          /\ tree = [p \in S \cup (IF stale THEN {stale_file} ELSE {}) |->
                        IF p = stale_file THEN Content(p, "stale", "PNG") ELSE Orig(p)]
          /\ dirs = (IF root_kind = "dir" THEN {img_dir_path} ELSE {})
                      \cup {p.dir : p \in S}
                      \cup (IF stale THEN {output_dir} ELSE {})
    /\ initial_files = {}
    /\ units = <<>>
    /\ results = <<>>
    /\ bpc = "call"
    /\ bret = "none"
    /\ tree0 = tree
    /\ fs = [n \in FileNames |-> 0]
    /\ subdir = FALSE
    /\ out = OutAbsent
    /\ save_file_mode = "SaveFirst"
    /\ files_to_remove_set = {}
    /\ todo = {}
    /\ branch = "none"
    /\ ret = "none"
    /\ dpc = "idle"
    /\ fs0 = fs
    /\ out0 = out
    /\ IdleResolve
    /\ IdleProcess
    /\ IdleRace
    /\ IdlePure

\* The precondition with its test left out.
is_valid_dir_unchecked(kind) == TRUE

\* img_dir_path.exists() and img_dir_path.is_dir()
is_valid_dir(kind) == kind = "dir"

\* if not img_dir_path.exists() or not img_dir_path.is_dir(): raise ValueError
DirInvalid ==
    /\ bpc = "call"
    /\ ~is_valid_dir(root_kind)
    /\ bpc' = "raised"
    /\ UNCHANGED <<op, compression, recursion, tree, dirs, initial_files, units,
                   results, bret, tree0>>
    /\ UNCHANGED <<resolveVars, dedupVars, processVars, raceVars, pureVars>>

\* The output directory as each process_dir prepares it (override = False).
prepare_tree(o, t) ==
    IF o \in {"compression", "format_conversion", "super_resolution"}
    THEN rmtree(t, output_dir)
    ELSE t

prepare_dirs(o, ds, found, rec) ==
    CASE o \in {"compression", "format_conversion", "super_resolution"} ->
            mkdir_parents(rmtree_dirs(ds, output_dir), output_dir)
      [] o = "rotation" ->
            IF rec
            THEN mkdir_parents(ds, output_dir) \cup {rotation_target(p).dir : p \in found}
            ELSE mkdir_parents(ds, output_dir)
      [] OTHER -> ds

\* process_dir up to the submission of the units: discovery, the output
\* directory, the snapshot of detect_new_files, executor.submit for each path.
DirStart ==
    /\ bpc = "call"
    /\ is_valid_dir(root_kind)
    /\ LET found == get_img_paths_by_dir(tree, img_dir_path, recursion, {}) IN
          /\ units' = [u \in found |-> Submitted]
          /\ IF override
             THEN UNCHANGED <<tree, dirs, initial_files>>
             ELSE /\ tree' = prepare_tree(op, tree)
                  /\ dirs' = prepare_dirs(op, dirs, found, recursion)
                  /\ initial_files' =
                        IF op \in {"compression", "format_conversion", "super_resolution"}
                        THEN direct_files(tree, img_dir_path)
                        ELSE {}
    /\ bpc' = "running"
    /\ UNCHANGED <<op, compression, recursion, results, bret, tree0>>
    /\ UNCHANGED <<resolveVars, dedupVars, processVars, raceVars, pureVars>>

\* ---- what a call of process gives back to _process_single_image
Raise(t, ds) == [tree |-> t, dirs |-> ds, raised |-> TRUE, path |-> NoPath]

Return(t, ds, p) == [tree |-> t, dirs |-> ds, raised |-> FALSE, path |-> p]

\* What the codecs can do to one file. "save_error" is a failing write, which
\* is taken to leave the path as it was.
Outcomes(o) ==
    CASE o = "rotation" -> {"rotate", "keep", "decode_error", "save_error"}
      [] o = "compression" -> {"ok", "fallback_png", "fallback_jpg", "decode_error", "save_error"}
      [] OTHER -> {"ok", "decode_error", "save_error"}

\* Rotation.process
Rotation_process(t, ds, img_path, ov, output_path, outcome) ==
    IF img_path \notin DOMAIN t \/ outcome \in {"decode_error", "save_error"}
    THEN Raise(t, ds)
    ELSE LET final_path == IF ov THEN img_path ELSE output_path
             made == mkdir_parents(ds, final_path.dir)
         IN  IF outcome = "rotate"
             THEN Return(Put(t, final_path,
                             Content(t[img_path].of, "rotated", format_of(final_path.ext))),
                         made, final_path)
             ELSE IF ov
                  THEN Return(t, ds, img_path)
                  ELSE Return(Put(t, final_path, t[img_path]), made, final_path)

\* SuperResolution.process
SuperResolution_process(t, ds, img_path, ov, outcome) ==
    IF img_path \notin DOMAIN t \/ outcome # "ok"
    THEN Raise(t, ds)
    ELSE LET output_img_path == IF ov THEN img_path ELSE with_stem_tag(img_path, "_out")
         IN  Return(Put(t, output_img_path,
                        Content(t[img_path].of, "upscaled", format_of(output_img_path.ext))),
                    ds, output_img_path)

\* FormatConversion._determine_output_path
determine_output_path(img_path, ov) ==
    IF ov
    THEN with_suffix(img_path, target_suffix)
    ELSE with_suffix(with_stem_tag(img_path, "_out"), target_suffix)

\* FormatConversion.process
FormatConversion_process(t, ds, img_path, ov, outcome) ==
    IF img_path \notin DOMAIN t \/ outcome = "decode_error"
    THEN Raise(t, ds)
    ELSE LET output_path == determine_output_path(img_path, ov)
             made == mkdir_parents(ds, output_path.dir)
         IN  IF outcome = "save_error"
             THEN Raise(t, made)
             ELSE Return(Put(t, output_path, Content(t[img_path].of, "converted", "WEBP")),
                         made, output_path)

\* Compression._determine_target_format_and_path: the format
determine_target_format(original_format, mode, mode_fits) ==
    IF mode = "Smallest" /\ original_format \in {"PNG", "JPEG"} /\ mode_fits
    THEN "WEBP"
    ELSE original_format

\* Compression._determine_target_format_and_path: the path
determine_target_path(img_path, original_format, fmt, ov) ==
    IF ov
    THEN IF fmt # original_format THEN with_suffix(img_path, suffix_of(fmt)) ELSE img_path
    ELSE with_suffix(with_stem_tag(img_path, "_compressed"), suffix_of(fmt))

\* What Compression.process does when the primary and the fallback save
\* have both failed: "finally: return output_path" discards the IOError.
both_saves_failed(t, ds, output_path) == Return(t, ds, output_path)

\* Compression.process
Compression_process(t, ds, img_path, mode, ov, outcome, mode_fits) ==
    IF img_path \notin DOMAIN t \/ outcome = "decode_error"
    THEN Raise(t, ds)
    ELSE LET original_format == t[img_path].fmt
             fmt == determine_target_format(original_format, mode, mode_fits)
             output_path == determine_target_path(img_path, original_format, fmt, ov)
             made == mkdir_parents(ds, output_path.dir)
             src == t[img_path].of
         IN  CASE outcome = "ok" ->
                    Return(Put(t, output_path, Content(src, "compressed", fmt)),
                           made, output_path)
               [] outcome = "fallback_png" ->
                    Return(Put(t, with_suffix(output_path, ".png"),
                               Content(src, "compressed", "PNG")),
                           made, with_suffix(output_path, ".png"))
               [] outcome = "fallback_jpg" ->
                    Return(Put(t, with_suffix(output_path, ".jpg"),
                               Content(src, "compressed", "JPEG")),
                           made, with_suffix(output_path, ".jpg"))
               [] OTHER -> both_saves_failed(t, made, output_path)

\* self.process(...) as the processor o runs it on one path
process(o, t, ds, img_path, ov, mode, outcome, mode_fits) ==
    CASE o = "rotation" ->
            Rotation_process(t, ds, img_path, ov, rotation_target(img_path), outcome)
      [] o = "super_resolution" ->
            SuperResolution_process(t, ds, img_path, ov, outcome)
      [] o = "format_conversion" ->
            FormatConversion_process(t, ds, img_path, ov, outcome)
      [] OTHER ->
            Compression_process(t, ds, img_path, mode, ov, outcome, mode_fits)

\* The outcome of a unit: f"Error processing {img_path}: {e}", or a path.
Err(u) == [unit |-> u, ok |-> FALSE, path |-> NoPath]

Ok(u, p) == [unit |-> u, ok |-> TRUE, path |-> p]

\* The processors whose non-override unit goes on after process returns.
Staged == {"compression", "format_conversion"}

Finish(u, failed, value) ==
    /\ units' = [units EXCEPT ![u] = [pc |-> "done", tmp |-> NoPath, failed |-> failed]]
    /\ results' = Append(results, value)

\* The workers take submitted items while the pool is collecting results and
\* while executor.shutdown(wait=True) waits for them.
pool_runs(b) == b \in {"running", "shutdown"}

\* _process_single_image up to the return of self.process
UnitProcess(u) ==
    /\ pool_runs(bpc)
    /\ op # "dedup"
    /\ units[u].pc = "submitted"
    /\ \E outcome \in Outcomes(op), mode_fits \in BOOLEAN :
          LET ds == IF op = "format_conversion" /\ ~override
                    THEN mkdir_parents(dirs, conversion_target_dir(u))
                    ELSE dirs
              r == process(op, tree, ds, u, override, compression, outcome, mode_fits)
              failed == r.raised \/ outcome \in {"decode_error", "save_error"}
          IN  /\ tree' = r.tree
              /\ dirs' = r.dirs
              /\ IF r.raised
                 THEN Finish(u, TRUE, Err(u))
                 ELSE IF ~override /\ op \in Staged
                      THEN /\ units' = [units EXCEPT ![u] =
                                          [pc |-> "processed", tmp |-> r.path, failed |-> failed]]
                           /\ UNCHANGED results
                      ELSE Finish(u, failed, Ok(u, r.path))
    /\ UNCHANGED <<op, compression, recursion, initial_files, bpc, bret, tree0>>
    /\ UNCHANGED <<resolveVars, dedupVars, processVars, raceVars, pureVars>>

\* _process_single_image, override = False: shutil.copy2(result, target)
UnitCopy(u) ==
    /\ pool_runs(bpc)
    /\ units[u].pc = "processed"
    /\ LET result == units[u].tmp
           target == IF op = "compression" THEN compression_target(u)
                     ELSE conversion_final_path(u)
       IN  IF result \in DOMAIN tree
           THEN /\ tree' = Put(tree, target, tree[result])
                /\ dirs' = mkdir_parents(dirs, target.dir)
                /\ units' = [units EXCEPT ![u].pc = "copied"]
                /\ UNCHANGED results
           ELSE /\ UNCHANGED tree
                /\ dirs' = mkdir_parents(dirs, target.dir)
                /\ IF op = "compression"
                   THEN Finish(u, TRUE, Err(u))
                   ELSE Finish(u, units[u].failed, Ok(u, target))
    /\ UNCHANGED <<op, compression, recursion, initial_files, bpc, bret, tree0>>
    /\ UNCHANGED <<resolveVars, dedupVars, processVars, raceVars, pureVars>>

\* _process_single_image, override = False: result.unlink() and the return
UnitUnlink(u) ==
    /\ pool_runs(bpc)
    /\ units[u].pc = "copied"
    /\ LET result == units[u].tmp
           target == IF op = "compression" THEN compression_target(u)
                     ELSE conversion_final_path(u)
       IN  IF result \in DOMAIN tree
           THEN /\ tree' = Del(tree, result)
                /\ Finish(u, units[u].failed, Ok(u, target))
           ELSE /\ UNCHANGED tree
                /\ IF op = "compression"
                   THEN Finish(u, units[u].failed, Ok(u, target))
                   ELSE Finish(u, TRUE, Err(u))
    /\ UNCHANGED <<op, compression, recursion, dirs, initial_files, bpc, bret, tree0>>
    /\ UNCHANGED <<resolveVars, dedupVars, processVars, raceVars, pureVars>>

\* Duplication.process_dir: the nested function process_single_directory
\* cannot be pickled for the process pool, so future.result() raises for the
\* first future, outside any try.
DirUnpicklable ==
    /\ bpc = "running"
    /\ op = "dedup"
    /\ DOMAIN units # {}
    /\ bpc' = "raised"
    /\ UNCHANGED <<op, compression, recursion, tree, dirs, initial_files, units,
                   results, bret, tree0>>
    /\ UNCHANGED <<resolveVars, dedupVars, processVars, raceVars, pureVars>>

\* new_file.rename(output_dir / new_file.name) for each new file
into_output(p) == [p EXCEPT !.dir = output_dir]

move_new_files(t, new_files) ==
    [q \in (DOMAIN t \ new_files) \cup {into_output(p) : p \in new_files} |->
        IF \E p \in new_files : into_output(p) = q
        THEN t[CHOOSE p \in new_files : into_output(p) = q]
        ELSE t[q]]

\* i.rename(i.with_stem(i.stem.removesuffix("_out")))
rename_out(t, i) ==
    LET j == [i EXCEPT !.stem = removesuffix_out(@)]
    IN  IF j = i THEN t ELSE Put(Del(t, i), j, t[i])

\* for i in output_dir.glob("**/*_out*"): the trees the loop can end in, the
\* listing coming in any order.
RECURSIVE rename_all(_, _)
rename_all(t, listing) ==
    IF listing = {}
    THEN {t}
    ELSE UNION {rename_all(rename_out(t, i), listing \ {i}) : i \in listing}

\* The part of process_dir that follows the pool (override = False).
after_pool(o, t, initial) ==
    LET moved == move_new_files(t, newly_added_files(t, img_dir_path, initial))
    IN  CASE o = "format_conversion" -> {moved}
          [] o = "super_resolution" ->
                rename_all(moved, {p \in DOMAIN moved :
                                      IsUnder(p.dir, output_dir) /\ matches_out(p)})
          [] OTHER -> {t}

\* Every future has completed: the steps after the pool and the return.
DirReturn ==
    /\ bpc = "running"
    /\ \A u \in DOMAIN units : units[u].pc = "done"
    /\ op = "dedup" => DOMAIN units = {}
    /\ IF override
       THEN UNCHANGED tree
       ELSE tree' \in after_pool(op, tree, initial_files)
    /\ bret' = IF op = "dedup" THEN "results"
               ELSE IF override THEN "img_dir_path" ELSE "output_dir"
    /\ bpc' = "returned"
    /\ UNCHANGED <<op, compression, recursion, dirs, initial_files, units, results, tree0>>
    /\ UNCHANGED <<resolveVars, dedupVars, processVars, raceVars, pureVars>>

NextBatch ==
    \/ DirInvalid
    \/ DirStart
    \/ \E u \in DOMAIN units : UnitProcess(u)
    \/ \E u \in DOMAIN units : UnitCopy(u)
    \/ \E u \in DOMAIN units : UnitUnlink(u)
    \/ DirUnpicklable
    \/ DirReturn

SpecBatch == InitBatch /\ [][NextBatch]_vars

\* ------------------------------------- process_dir and KeyboardInterrupt
\* KeyboardInterrupt is raised in the calling process while it waits in
\* as_completed(futures): the exception leaves the loop and the with block,
\* whose exit is executor.shutdown(wait=True) with no future cancelled.
Interrupt ==
    /\ bpc = "running"
    /\ op # "dedup"
    /\ bpc' = "shutdown"
    /\ UNCHANGED <<op, compression, recursion, tree, dirs, initial_files, units,
                   results, bret, tree0>>
    /\ UNCHANGED <<resolveVars, dedupVars, processVars, raceVars, pureVars>>

\* shutdown returns when every submitted item has run; the KeyboardInterrupt
\* then reaches the caller of process_dir, the steps after the pool skipped.
ShutdownDone ==
    /\ bpc = "shutdown"
    /\ \A u \in DOMAIN units : units[u].pc = "done"
    /\ bpc' = "interrupted"
    /\ UNCHANGED <<op, compression, recursion, tree, dirs, initial_files, units,
                   results, bret, tree0>>
    /\ UNCHANGED <<resolveVars, dedupVars, processVars, raceVars, pureVars>>

NextCancel ==
    \/ NextBatch
    \/ Interrupt
    \/ ShutdownDone

SpecCancel == InitBatch /\ [][NextCancel]_vars

\* ------------------------------------------------- get_img_paths_by_dir
\* Files of mixed suffix casing, one that is no image, one in a sub-directory
\* and one outside the directory.
ListedFiles ==
    { Path(img_dir_path, <<"a">>, ".png"),
      Path(img_dir_path, <<"a">>, ".PNG"),
      Path(img_dir_path, <<"a">>, ".Jpg"),
      Path(img_dir_path, <<"a">>, ".txt"),
      Path(sub_dir, <<"a">>, ".png"),
      Path(output_dir, <<"a">>, ".png") }

\* The suffix argument: None, or a tuple of suffixes as the caller wrote them.
SuffixArguments == {{}, {".png"}, {".PNG"}, {".jpg", ".png"}, {".Jpg"}}

InitDiscover ==
    /\ fn_args \in [files : SUBSET ListedFiles, recursion : BOOLEAN, suffix : SuffixArguments]
    /\ fn_value = {}
    /\ fpc = "call"
    /\ fs = [n \in FileNames |-> 0]
    /\ save_file_mode = "SaveFirst"
    /\ IdleResolve
    /\ IdleDedup
    /\ IdleBatch
    /\ IdleProcess
    /\ IdleRace

\* img_paths = IOuitls.get_img_paths_by_dir(img_dir_path, recursion, suffix)
Discover ==
    /\ fpc = "call"
    /\ fn_value' = get_img_paths_by_dir([p \in fn_args.files |-> Content(p, "orig", "DATA")], img_dir_path,
                                        fn_args.recursion, fn_args.suffix)
    /\ fpc' = "returned"
    /\ UNCHANGED fn_args
    /\ UNCHANGED <<resolveVars, dedupVars, batchVars, processVars, raceVars>>

NextDiscover == Discover

SpecDiscover == InitDiscover /\ [][NextDiscover]_vars

\* ------------------------------------------------- process on a single file
Orientation == {"Vertical", "Horizontal"}

RotationMode == {"Clockwise", "CounterClockwise"}

Dims == 1..MaxDim

\* Mutant: the comparisons are not strict, a square image is turned too.
needs_rotation_not_strict(width, height, orient) ==
    CASE orient = "Horizontal" -> height >= width
      [] orient = "Vertical" -> width >= height

\* Rotation.process: is_currently_horizontal / is_currently_vertical and the
\* match on the target orientation
needs_rotation(width, height, orient) ==
    CASE orient = "Horizontal" -> height > width
      [] orient = "Vertical" -> width > height

\* Mutant: the content turns, the sides are not exchanged.
transpose_keeps_sides(im, mode) ==
    [im EXCEPT !.angle = IF mode = "Clockwise" THEN (@ + 1) % 4 ELSE (@ + 3) % 4]

\* img.transpose(ROTATE_270) for Clockwise, img.transpose(ROTATE_90) for
\* CounterClockwise: the sides are exchanged, the content turns by a quarter.
transpose(im, mode) ==
    [im EXCEPT !.width = im.height,
               !.height = im.width,
               !.angle = IF mode = "Clockwise" THEN (@ + 1) % 4 ELSE (@ + 3) % 4]

\* has_alpha_fallback selects the fallback container
fallback_outcome(alpha) == IF alpha THEN "fallback_png" ELSE "fallback_jpg"

\* The saves Compression.process attempts, in order.
save_attempts(primary_ok, alpha) ==
    IF primary_ok THEN <<"primary">>
    ELSE <<"primary", IF alpha THEN "PNG" ELSE "JPEG">>

\* What the codecs do in one call, as the outcome the processor sees.
codec_outcome(o, im, orient, decode_ok, primary_ok, fallback_ok) ==
    IF ~decode_ok THEN "decode_error"
    ELSE CASE o = "rotation" ->
                IF ~primary_ok THEN "save_error"
                ELSE IF needs_rotation(im.width, im.height, orient) THEN "rotate"
                ELSE "keep"
           [] o = "compression" ->
                IF primary_ok THEN "ok"
                ELSE IF fallback_ok THEN fallback_outcome(im.has_alpha)
                ELSE "save_error"
           [] OTHER -> IF primary_ok THEN "ok" ELSE "save_error"

\* How a failing Image.save(path) leaves the path. Pillow opens the path for
\* writing, which empties an existing file, and then runs the encoder. The
\* open itself can fail ("unopened"); an encoder failure leaves what was
\* written so far ("partial"), except that a Pillow that removes the file it
\* had created leaves no new file ("removed").
WriteFailures == {"unopened", "partial", "removed"}

failed_save(t, path, src, how) ==
    CASE how = "unopened" -> t
      [] how = "partial" -> Put(t, path, Content(src, "partial", "none"))
      [] how = "removed" ->
            IF path \in DOMAIN t THEN Put(t, path, Content(src, "partial", "none")) ELSE t

\* The path the processor o hands to its first Image.save
save_path(o, t, img_path, ov, mode, mode_fits) ==
    CASE o = "rotation" -> IF ov THEN img_path ELSE rotation_target(img_path)
      [] o = "super_resolution" -> IF ov THEN img_path ELSE with_stem_tag(img_path, "_out")
      [] o = "format_conversion" -> determine_output_path(img_path, ov)
      [] OTHER -> determine_target_path(img_path, t[img_path].fmt,
                        determine_target_format(t[img_path].fmt, mode, mode_fits), ov)

\* fallback_output_path = output_path.with_suffix(".png" or ".jpg")
fallback_path(output_path, alpha) ==
    with_suffix(output_path, IF alpha THEN ".png" ELSE ".jpg")

\* The saves of one call that fail, in order: <<path, how>>. Rotation saves
\* only an image it has turned.
failing_saves(o, t, im, a, ov, mode, decode_ok, primary_ok, fallback_ok, how1, how2) ==
    IF a.img_path \notin DOMAIN t \/ ~decode_ok \/ primary_ok
       \/ (o = "rotation" /\ ~needs_rotation(im.width, im.height, a.orientation))
    THEN <<>>
    ELSE LET first == save_path(o, t, a.img_path, ov, mode, im.mode_fits)
         IN  IF o = "compression" /\ ~fallback_ok
             THEN << <<first, how1>>, <<fallback_path(first, im.has_alpha), how2>> >>
             ELSE << <<first, how1>> >>

\* The tree after the failing saves of a call; a fallback save that succeeded
\* on the path of the failed primary save has replaced what that left.
RECURSIVE after_failed_saves(_, _, _, _)
after_failed_saves(t, fails, src, rewritten) ==
    IF fails = <<>> THEN t
    ELSE after_failed_saves(
            IF fails[1][1] \in rewritten THEN t
            ELSE failed_save(t, fails[1][1], src, fails[1][2]),
            Tail(fails), src, rewritten)

SingleFiles ==
    { Path(img_dir_path, <<"a">>, ".png"),
      Path(img_dir_path, <<"a">>, ".jpg"),
      Path(img_dir_path, <<"a">>, ".webp") }

InitProcess ==
    /\ op \in Operations \ {"dedup"}
    /\ compression \in CompressionMode
    /\ op # "compression" => compression = "Best"
    /\ override \in BOOLEAN
    /\ args \in [img_path : SingleFiles, orientation : Orientation, rotation_mode : RotationMode]
    /\ op # "rotation" => (args.orientation = "Vertical" /\ args.rotation_mode = "Clockwise")
    /\ image \in [width : Dims, height : Dims, angle : {0}, has_alpha : BOOLEAN, mode_fits : BOOLEAN]
    /\ op # "compression" => (~image.has_alpha /\ image.mode_fits)
    /\ op # "rotation" => (image.width = 1 /\ image.height = 1)
    /\ \E present \in BOOLEAN :
          tree = [p \in (IF present THEN {args.img_path} ELSE {}) |-> Orig(p)]
    /\ dirs = {img_dir_path}
    /\ tree0 = tree
    /\ last = <<>>
    /\ ppc = "call"
    /\ calls = 0
    /\ recursion = FALSE
    /\ initial_files = {}
    /\ units = <<>>
    /\ results = <<>>
    /\ bpc = "idle"
    /\ bret = "none"
    /\ root_kind = "dir"
    /\ fs = [n \in FileNames |-> 0]
    /\ subdir = FALSE
    /\ out = OutAbsent
    /\ save_file_mode = "SaveFirst"
    /\ files_to_remove_set = {}
    /\ todo = {}
    /\ branch = "none"
    /\ ret = "none"
    /\ dpc = "idle"
    /\ fs0 = fs
    /\ out0 = out
    /\ IdleResolve
    /\ IdleRace
    /\ IdlePure

\* One call of process(img_path, ...) as _process_single_image makes it; a
\* second call on the same path may follow a call that returned.
ProcessCall ==
    /\ ppc \in {"call", "returned"}
    /\ calls < MaxCalls
    /\ \E decode_ok, primary_ok, fallback_ok \in BOOLEAN, how1, how2 \in WriteFailures :
          LET outcome == codec_outcome(op, image, args.orientation,
                                       decode_ok, primary_ok, fallback_ok)
              r == process(op, tree, dirs, args.img_path, override, compression,
                           outcome, image.mode_fits)
              turned == transpose(image, args.rotation_mode)
              fails == failing_saves(op, tree, image, args, override, compression,
                                     decode_ok, primary_ok, fallback_ok, how1, how2)
              rewritten == IF outcome \in {"fallback_png", "fallback_jpg"}
                           THEN {r.path} ELSE {}
          IN  /\ (args.img_path \in DOMAIN tree /\ tree[args.img_path].by = "partial")
                    => ~decode_ok
              /\ tree' = IF fails = <<>> THEN r.tree
                         ELSE after_failed_saves(r.tree, fails, tree[args.img_path].of,
                                                 rewritten)
              /\ dirs' = r.dirs
              /\ ppc' = IF r.raised THEN "raised" ELSE "returned"
              /\ image' = IF ~r.raised /\ outcome = "rotate" /\ override
                          THEN turned ELSE image
              /\ last' = [outcome |-> outcome,
                          before |-> tree,
                          input |-> image,
                          path |-> r.path,
                          output |-> IF r.raised THEN <<>>
                                     ELSE IF outcome = "rotate" THEN turned ELSE image,
                          saves |-> IF op = "compression" /\ decode_ok
                                       /\ args.img_path \in DOMAIN tree
                                    THEN save_attempts(primary_ok, image.has_alpha)
                                    ELSE <<>>,
                          primary_ok |-> primary_ok,
                          fallback_ok |-> fallback_ok,
                          failed_saves |-> {fails[i][1] : i \in 1..Len(fails)}]
    /\ calls' = calls + 1
    /\ UNCHANGED <<args, op, compression, recursion, initial_files, units, results,
                   bpc, bret, tree0>>
    /\ UNCHANGED <<resolveVars, dedupVars, raceVars, pureVars>>

NextProcess == ProcessCall

SpecProcess == InitProcess /\ [][NextProcess]_vars

\* ------------------------------------------------ the returned directory
\* A directory name is the sequence of its dot-separated parts:
\* <<"my", "photos", "2024">> is my.photos.2024 and <<"", "cache">> is .cache
DirNames ==
    { <<"photos">>, <<"photos", "v1">>, <<"my", "photos", "2024">>,
      <<"", "cache">>, <<"", "cache", "v1">> }

\* PurePath.stem: the name without its last suffix; the dot at the start of a
\* name does not begin a suffix.
stem(name) ==
    IF Len(name) >= 2 /\ ~(Len(name) = 2 /\ name[1] = "")
    THEN SubSeq(name, 1, Len(name) - 1)
    ELSE name

\* Enum.value of the members whose value is put into a directory name
enum_value(member) ==
    CASE member = "Fastest" -> "fastest"
      [] member = "Smallest" -> "smallest"
      [] member = "Best" -> "best"
      [] member = "Vertical" -> "vertical"
      [] member = "Horizontal" -> "horizontal"

\* A directory beside img_dir_path: the parts kept of the input name and the
\* text appended after "_" (<<>> when nothing is appended).
Dir(base, tag) == [base |-> base, tag |-> tag]

\* The calls of the five directory operations with the argument that goes
\* into the name.
DirCalls ==
    [op : {"compression"}, arg : CompressionMode, name : DirNames, override : BOOLEAN]
    \cup [op : {"rotation"}, arg : Orientation, name : DirNames, override : BOOLEAN]
    \cup [op : {"format_conversion"}, arg : {"jpg", "png", "webp"}, name : DirNames, override : BOOLEAN]
    \cup [op : {"super_resolution"}, arg : 1..4, name : DirNames, override : BOOLEAN]
    \cup [op : {"dedup"}, arg : {"AHash"}, name : DirNames, override : BOOLEAN]

\* What follows the "_" in the f-string of each operation
name_tag(c) ==
    CASE c.op = "compression" -> <<enum_value(c.arg)>>
      [] c.op = "rotation" -> <<enum_value(c.arg)>>
      [] c.op = "format_conversion" -> <<c.arg>>
      [] c.op = "super_resolution" -> <<"sr", c.arg, "x">>
      [] c.op = "dedup" -> <<"deduplicated">>

\* output_dir of the process_dir methods; output_path of Duplication.process
output_dir_of(c) ==
    IF c.override THEN Dir(c.name, <<>>)
    ELSE IF c.op = "dedup" THEN Dir(c.name, name_tag(c))
    ELSE Dir(stem(c.name), name_tag(c))

\* The directories the call creates: output_dir.mkdir, copytree
created_dirs(c) == IF c.override THEN {} ELSE {output_dir_of(c)}

InitNaming ==
    /\ fn_args \in DirCalls
    /\ fn_value = <<>>
    /\ fpc = "call"
    /\ fs = [n \in FileNames |-> 0]
    /\ save_file_mode = "SaveFirst"
    /\ IdleResolve
    /\ IdleDedup
    /\ IdleBatch
    /\ IdleProcess
    /\ IdleRace

\* The directory operation returns its output directory.
ReturnDir ==
    /\ fpc = "call"
    /\ fn_value' = [returned |-> output_dir_of(fn_args), created |-> created_dirs(fn_args)]
    /\ fpc' = "returned"
    /\ UNCHANGED fn_args
    /\ UNCHANGED <<resolveVars, dedupVars, batchVars, processVars, raceVars>>

NextNaming == ReturnDir

SpecNaming == InitNaming /\ [][NextNaming]_vars

\* ================================================================ claims
\* The members of group i as the claims speak of them, from the inputs alone:
\* the representative and its matches that exist in the directory.
Listed(i) == <<raw_duplicates[i].key>> \o raw_duplicates[i].matches
Members(i) == {n \in SeqToSet(Listed(i)) : fs[n] > 0}
Smallest(S) == CHOOSE m \in S : \A n \in S \ {m} : StrLess(m, n)
Largest(S) == CHOOSE m \in S : \A n \in S \ {m} : StrLess(n, m)
\* The members the code chose to keep, as a set.
KeepSet(keep) == IF keep.kind = "Path" THEN {keep.name} ELSE SeqToSet(keep.items)
GroupIds == 1..Len(raw_duplicates)

\* C1 (as stated): under SaveFirstAndLast a group with two or more existing
\* members has its smallest-named and its largest-named member outside its
\* delete-set and every other member inside; a group with exactly one existing
\* member does not have that member in its delete-set.
C1_FirstAndLastKept ==
    (rpc = "returned" /\ save_file_mode = "SaveFirstAndLast") =>
        \A i \in GroupIds :
            LET M == Members(i)
                D == group_log[i].deleted
            IN  /\ Cardinality(M) >= 2 =>
                    /\ Smallest(M) \notin D
                    /\ Largest(M) \notin D
                    /\ \A n \in M \ {Smallest(M), Largest(M)} : n \in D
                /\ Cardinality(M) = 1 => M \cap D = {}

\* C2 (as stated): for every mode and every group with an existing member, the
\* keep-set is a non-empty subset of the group (one member, or two under
\* SaveFirstAndLast unless the group has one member), the delete-set is the
\* group minus the keep-set, and the two are disjoint.
C2_KeepDeletePartition ==
    rpc = "returned" =>
        \A i \in GroupIds :
            LET M == Members(i)
                K == KeepSet(group_log[i].keep)
                D == group_log[i].deleted
            IN  M # {} =>
                    /\ K # {} /\ K \subseteq M
                    /\ Cardinality(K) =
                         IF save_file_mode = "SaveFirstAndLast" /\ Cardinality(M) > 1
                         THEN 2 ELSE 1
                    /\ D = M \ K
                    /\ K \cap D = {}

\* C3: under SaveFirst the keep-set of a group is the one existing member with
\* the smallest file name, under SaveLast the one with the largest; every
\* other existing member of the group is in the delete-set.
C3_FirstLastByName ==
    (rpc = "returned" /\ save_file_mode \in {"SaveFirst", "SaveLast"}) =>
        \A i \in GroupIds :
            LET M == Members(i)
                k == IF save_file_mode = "SaveFirst" THEN Smallest(M) ELSE Largest(M)
            IN  M # {} =>
                    /\ group_log[i].keep = PathVal(k)
                    /\ group_log[i].deleted = M \ {k}
                    /\ M \ {k} \subseteq files_to_delete_final

\* C3's case: the group {a.png, a_dup.png}, listed with a_dup.png first,
\* resolved under SaveFirst to the delete-set {a_dup.png}.
C3_Witness ==
    /\ rpc = "returned"
    /\ save_file_mode = "SaveFirst"
    /\ \E i \in GroupIds :
          /\ Listed(i) = <<a_dup_png, a_png>>
          /\ Members(i) = {a_png, a_dup_png}
          /\ group_log[i].deleted = {a_dup_png}

\* The positions of Listed(i) that hold an existing member.
Present(i) == {j \in 1..Len(Listed(i)) : fs[Listed(i)[j]] > 0}

\* C4: under SaveBigger the keep-set of a group is the one existing member of
\* the largest byte size, under SaveSmaller of the smallest; of several members
\* that tie, the one listed first (representative, then the matches in order)
\* is kept; all other members are in the delete-set.
C4_BiggerSmallerBySize ==
    (rpc = "returned" /\ save_file_mode \in {"SaveBigger", "SaveSmaller"}) =>
        \A i \in GroupIds :
            Present(i) # {} =>
                \E k \in Present(i) :
                    /\ \A j \in Present(i) :
                          IF save_file_mode = "SaveBigger"
                          THEN /\ fs[Listed(i)[j]] <= fs[Listed(i)[k]]
                               /\ j < k => fs[Listed(i)[j]] < fs[Listed(i)[k]]
                          ELSE /\ fs[Listed(i)[j]] >= fs[Listed(i)[k]]
                               /\ j < k => fs[Listed(i)[j]] > fs[Listed(i)[k]]
                    /\ group_log[i].keep = PathVal(Listed(i)[k])
                    /\ group_log[i].deleted = Members(i) \ {Listed(i)[k]}
                    /\ Members(i) \ {Listed(i)[k]} \subseteq files_to_delete_final

\* C4's case: a group of three existing members under SaveBigger in which two
\* matches tie on the largest size and the one listed first is kept.
C4_Witness ==
    /\ rpc = "returned"
    /\ save_file_mode = "SaveBigger"
    /\ \E i \in GroupIds :
          /\ Present(i) = {1, 2, 3}
          /\ fs[Listed(i)[1]] < fs[Listed(i)[2]]
          /\ fs[Listed(i)[2]] = fs[Listed(i)[3]]
          /\ group_log[i].keep = PathVal(Listed(i)[2])
          /\ group_log[i].deleted = {Listed(i)[1], Listed(i)[3]}

\* C5: with override=true and a non-empty duplicate mapping, once process has
\* returned, the directory holds exactly the files it held at the call minus
\* the global delete-set, each with its content, nothing else was created,
\* and the returned path is the source directory.
C5_OverrideRemovesDeleteSet ==
    (dpc = "returned" /\ override /\ branch = "resolved") =>
        /\ fs = [n \in FileNames |-> IF n \in files_to_remove_set THEN 0 ELSE fs0[n]]
        /\ out = out0
        /\ ret = "img_dir"

\* C5's case: an override run that returned after unlinking two files while a
\* third file stayed.
C5_Witness ==
    /\ dpc = "returned" /\ override /\ branch = "resolved"
    /\ Cardinality(files_to_remove_set) = 2
    /\ Cardinality(ExistingFiles(fs0)) = 3
    /\ Cardinality(ExistingFiles(fs)) = 1

\* C6: with override=false and a non-empty duplicate mapping, process returns
\* the sibling <name>_deduplicated, which then holds exactly the regular files
\* of the source directory that are not in the global delete-set, under their
\* names and with their content, and nothing else.
C6_CopyKeepsSurvivors ==
    (dpc = "returned" /\ ~override /\ branch = "resolved") =>
        /\ ret = "deduplicated"
        /\ out.exists
        /\ ~out.subdir
        /\ out.files = [n \in OutNames |->
                          IF n \in FileNames /\ n \notin files_to_remove_set
                          THEN fs0[n] ELSE 0]

\* C6's case: a non-override run over a directory with a sub-directory and a
\* stale sibling, which copied some files and left a duplicate out.
C6_Witness ==
    /\ dpc = "returned" /\ ~override /\ branch = "resolved"
    /\ out0 = OutStale
    /\ subdir
    /\ files_to_remove_set # {}
    /\ \E n \in FileNames : out.files[n] > 0
    /\ \E n \in FileNames : fs0[n] > 0 /\ out.files[n] = 0

\* C8 (as stated, for dedup): after a non-override run the sibling holds only
\* what this run wrote; on a directory without images it is empty whatever it
\* held before.
C8_DedupOutputFresh ==
    (dpc = "returned" /\ ~override) =>
        /\ out.exists
        /\ out.files[old_png] = 0
        /\ branch = "no_images" => out = OutEmpty

\* The files at and below img_dir_path, with their content.
SourceTree(t) == [p \in {q \in DOMAIN t : IsUnder(q.dir, img_dir_path)} |-> t[p]]

\* C7: after a non-override process_dir has returned, the source tree holds
\* exactly the files it held at the call, each with the content it had.
C7_SourceTreeUntouched ==
    (bpc = "returned" /\ ~override) => SourceTree(tree) = SourceTree(tree0)

\* The positions of the outcomes collected for unit u.
OutcomesOf(u) == {i \in 1..Len(results) : results[i].unit = u}

\* Where the outputs of the batch are to be found.
InOutputLocation(p) ==
    IF override THEN IsUnder(p.dir, img_dir_path) ELSE IsUnder(p.dir, output_dir)

HasOutput(u) == \E p \in DOMAIN tree : InOutputLocation(p) /\ tree[p].of = u

\* C9: in a batch of the four image operations in which some unit failed,
\* each failed unit has a failure outcome naming it, each other unit has its
\* output in the output location, and the batch returns.
C9_FailureIsolated ==
    /\ (bpc = "returned" /\ op # "dedup" /\ \E u \in DOMAIN units : units[u].failed) =>
          \A u \in DOMAIN units :
             IF units[u].failed
             THEN \A i \in OutcomesOf(u) : ~results[i].ok
             ELSE HasOutput(u)
    /\ (bpc = "raised" /\ op # "dedup") => root_kind # "dir"

\* C10: a process_dir that was given a directory returns, and has then
\* collected exactly one outcome for each discovered unit.
C10_OneOutcomePerUnit ==
    /\ bpc = "returned" =>
          /\ Len(results) = Cardinality(DOMAIN units)
          /\ \A u \in DOMAIN units : Cardinality(OutcomesOf(u)) = 1
    /\ bpc = "raised" => root_kind # "dir"

\* C11: when the primary save of Compression.process fails, one fallback save
\* follows (PNG for an image with alpha, JPEG otherwise); if it succeeds the
\* fallback file's path is returned, and if it fails too the call raises.
C11_FallbackThenError ==
    (op = "compression" /\ ppc \in {"returned", "raised"}
        /\ last.saves # <<>> /\ ~last.primary_ok) =>
        /\ Len(last.saves) = 2
        /\ last.saves[2] = (IF last.input.has_alpha THEN "PNG" ELSE "JPEG")
        /\ last.fallback_ok =>
              /\ ppc = "returned"
              /\ last.path.ext = (IF last.input.has_alpha THEN ".png" ELSE ".jpg")
              /\ last.path \in DOMAIN tree
              /\ tree[last.path].fmt = last.saves[2]
        /\ ~last.fallback_ok => ppc = "raised"

\* The files at and below img_dir_path.
SourceFiles(t) == {p \in DOMAIN t : IsUnder(p.dir, img_dir_path)}

\* C12: after an override batch of format conversion or compression in which
\* every unit succeeded, an input whose output has another suffix is gone,
\* the directory holds as many files as before, and after format conversion
\* every file carries the target suffix.
C12_OverrideReplacesOriginal ==
    (bpc = "returned" /\ override /\ op \in {"format_conversion", "compression"}
        /\ \A i \in 1..Len(results) : results[i].ok
        /\ \A u \in DOMAIN units : ~units[u].failed) =>
        /\ \A i \in 1..Len(results) :
              results[i].path.ext # results[i].unit.ext =>
                  results[i].unit \notin DOMAIN tree
        /\ Cardinality(SourceFiles(tree)) = Cardinality(SourceFiles(tree0))
        /\ op = "format_conversion" =>
              \A p \in SourceFiles(tree) : p.ext = target_suffix

\* C13: with files vanishing while _resolve_duplicates runs, the call never
\* raises, and a member that had vanished when the keep value of its group
\* was chosen is not among what the group contributes.
C13_VanishedMemberDropped ==
    /\ rpc # "raised"
    /\ rpc = "returned" =>
          \A i \in 1..Len(group_log) :
              group_log[i].deleted \subseteq SeqToSet(group_log[i].present)

\* C14: when delete-set files vanish under the override delete loop, before
\* or after the exists() check of their iteration, process does not raise,
\* and at its return no delete-set file is left.
C14_VanishedDeleteBenign ==
    /\ dpc # "raised"
    /\ dpc = "returned" => \A n \in files_to_remove_set : ~Exists(fs, n)

\* C15: a group none of whose members exists when resolution reaches it is
\* skipped: the call does not raise, the group contributes nothing, and the
\* delete-set is the union of what the other groups contribute.
C15_EmptyGroupSkipped ==
    /\ rpc # "raised"
    /\ rpc = "returned" =>
          /\ Len(group_log) = Len(raw_duplicates)
          /\ \A i \in GroupIds : Members(i) = {} => group_log[i].deleted = {}
          /\ files_to_delete_final =
                UNION {group_log[i].deleted : i \in {j \in GroupIds : Members(j) # {}}}

C15_Witness ==
    /\ rpc = "returned"
    /\ \E i \in GroupIds : Members(i) = {}
    /\ \E i \in GroupIds : Members(i) # {} /\ group_log[i].deleted # {}

\* The last call of Rotation.process got through decoding and saving.
RotationDone ==
    op = "rotation" /\ ppc = "returned" /\ last.outcome \in {"rotate", "keep"}

\* The orientation test as the claim words it.
Mismatch(im, orient) ==
    \/ orient = "Horizontal" /\ im.height > im.width
    \/ orient = "Vertical" /\ im.width > im.height

\* C16: Rotation.process makes one quarter turn in the requested direction,
\* exchanging width and height, exactly when the image is strictly taller
\* than wide with target Horizontal or strictly wider than tall with target
\* Vertical; otherwise the output has the input's dimensions, the file being
\* left alone under override and copied to the output path without it.
C16_RotatesOnMismatchOnly ==
    RotationDone =>
        IF Mismatch(last.input, args.orientation)
        THEN /\ last.output.width = last.input.height
             /\ last.output.height = last.input.width
             /\ last.output.angle =
                   (last.input.angle
                      + (IF args.rotation_mode = "Clockwise" THEN 1 ELSE 3)) % 4
             /\ tree[last.path].by = "rotated"
        ELSE /\ last.output = last.input
             /\ IF override
                THEN tree = last.before /\ last.path = args.img_path
                ELSE /\ last.path # args.img_path
                     /\ tree[last.path] = last.before[args.img_path]
                     /\ tree[args.img_path] = last.before[args.img_path]

C16_Witness ==
    /\ RotationDone
    /\ last.input.width = last.input.height
    /\ ~override
    /\ last.path \in DOMAIN tree

\* A non-override, recursive batch of an operation that mirrors the tree.
Mirroring == ~override /\ recursion /\ op \in {"rotation", "super_resolution"}

\* C17: in a non-override recursive batch of rotation or super-resolution the
\* directory of every output exists from the submission on, before any unit
\* has started, and when the batch has returned every input that was
\* processed has its output at the same relative path below output_dir.
C17_MirroredOutputs ==
    /\ (bpc = "running" /\ Mirroring) =>
          \A u \in DOMAIN units : rotation_target(u).dir \in dirs
    /\ (bpc = "returned" /\ Mirroring) =>
          \A u \in DOMAIN units :
              ~units[u].failed => rotation_target(u) \in DOMAIN tree

\* The files the claim counts as in scope of the directory.
InScope(p) ==
    IF fn_args.recursion THEN IsUnder(p.dir, img_dir_path) ELSE p.dir = img_dir_path

\* C18: get_img_paths_by_dir returns exactly the files in scope whose suffix
\* equals an entry of the allow-list when both are compared without regard
\* to case.
C18_SuffixCaseInsensitive ==
    fpc = "returned" =>
        fn_value = {p \in fn_args.files :
                      /\ InScope(p)
                      /\ \E e \in suffix_allowed(fn_args.suffix) : lower(e) = lower(p.ext)}

\* C19: without override a directory operation returns the sibling directory
\* named by the whole input name, "_" and the operation tag; with override it
\* returns the input directory and creates no directory.
C19_OutputDirName ==
    fpc = "returned" =>
        IF fn_args.override
        THEN fn_value.returned = Dir(fn_args.name, <<>>) /\ fn_value.created = {}
        ELSE fn_value.returned = Dir(fn_args.name, name_tag(fn_args))

\* The files a compression run has written as WebP.
WrittenAsWebP(t) == {p \in DOMAIN t : t[p].by = "compressed" /\ t[p].fmt = "WEBP"}

\* C20: when a Smallest-mode compression batch has returned, every file it
\* wrote as WebP ends in .webp, and so does every path a unit returned for
\* such a file.
C20_WebPCarriesSuffix ==
    (bpc = "returned" /\ op = "compression" /\ compression = "Smallest") =>
        /\ \A p \in WrittenAsWebP(tree) : p.ext = ".webp"
        /\ \A i \in 1..Len(results) :
              (results[i].ok /\ results[i].path \in WrittenAsWebP(tree)) =>
                  results[i].path.ext = ".webp"

C22_FailedWriteLeavesPath ==
    (ppc \in {"returned", "raised"} /\ last.failed_saves # {}) =>
        /\ \A p \in last.failed_saves :
              \/ /\ p \in DOMAIN tree <=> p \in DOMAIN last.before
                 /\ p \in DOMAIN tree => tree[p] = last.before[p]
              \/ /\ last.outcome \in {"fallback_png", "fallback_jpg"}
                 /\ p = last.path
        /\ \A p \in DOMAIN tree : tree[p].by # "partial"

\* C23: once the interrupt has arrived, a unit that has not started never
\* starts, a unit that has started goes on to its end, and process_dir does
\* not return normally.
C23_NoStartAfterInterrupt ==
    [][bpc = "shutdown" =>
          /\ \A u \in DOMAIN units :
                units[u].pc = "submitted" => units'[u].pc = "submitted"
          /\ bpc' # "returned"]_vars

\* C24: in a dedup batch no submitted unit is a regular file (each is a
\* directory), and on a valid input directory the call does not raise and
\* returns one result per unit, none of them a failure message.
C24_DedupUnitIsDirectory ==
    (op = "dedup" /\ root_kind = "dir") =>
        /\ \A u \in DOMAIN units : u \notin DOMAIN tree0
        /\ bpc # "raised"
        /\ bpc = "returned" =>
              /\ Len(results) = Cardinality(DOMAIN units)
              /\ \A i \in 1..Len(results) : results[i].ok

\* The delete loop of an override run has ended in the OSError.
DeleteRaised == dpc = "raised" /\ override /\ branch = "resolved"

\* A step of the delete loop in which the file taken from the delete-set
\* was there and is still there: its unlink failed.
UnlinkFailed ==
    dpc = "deleting" /\ \E n \in todo \ todo' : Exists(fs, n) /\ Exists(fs', n)

\* C25: the step in which an unlink of the override delete loop fails ends
\* Duplication.process with the error and no returned path; the delete-set
\* files not yet visited are as they were at the call, and of the visited
\* ones only the file whose unlink failed is still there.
C25_UnlinkFailureAborts ==
    /\ [][UnlinkFailed => (dpc' = "raised" /\ ret' = "none")]_vars
    /\ [](DeleteRaised =>
            /\ ret = "none"
            /\ \A n \in todo : fs[n] = fs0[n]
            /\ Cardinality({n \in files_to_remove_set \ todo : Exists(fs, n)}) = 1)

C25_Witness ==
    /\ DeleteRaised
    /\ \E n \in todo : Exists(fs, n)

\* The files of the mapping and the relation it lists.
Keys == {raw_duplicates[i].key : i \in GroupIds}
Linked(m, n) ==
    \E i \in GroupIds : raw_duplicates[i].key = m /\ n \in SeqToSet(raw_duplicates[i].matches)

\* Every file of the mapping is a key and exists, and m lists n exactly when
\* n lists m.
SymmetricMapping ==
    /\ \A i \in GroupIds :
          SeqToSet(Listed(i)) \subseteq Keys /\ \A n \in SeqToSet(Listed(i)) : Exists(fs, n)
    /\ \A m, n \in Keys : Linked(m, n) <=> Linked(n, m)

\* The connected cluster of a file: what is reached through linked groups.
RECURSIVE Reached(_)
Reached(S) ==
    LET T == S \cup {n \in Keys : \E m \in S : Linked(m, n)}
    IN  IF T = S THEN S ELSE Reached(T)
Cluster(n) == Reached({n})

SingleKeep == {"SaveFirst", "SaveLast", "SaveBigger", "SaveSmaller"}

\* C26: under a single-keep mode and a symmetric mapping, equal sizes
\* included, the global delete-set leaves at least one file of every
\* connected cluster.
C26_ClusterKeepsOne ==
    (rpc = "returned" /\ save_file_mode \in SingleKeep /\ SymmetricMapping) =>
        \A n \in Keys : \E m \in Cluster(n) : m \notin files_to_delete_final

\* C27: under a single-keep mode, for any mapping, every file of the global
\* delete-set is a member of some group that has a member outside the
\* delete-set.
C27_DeletedHasSurvivingMate ==
    (rpc = "returned" /\ save_file_mode \in SingleKeep) =>
        \A d \in files_to_delete_final :
            \E i \in GroupIds :
                d \in Members(i) /\ \E m \in Members(i) : m \notin files_to_delete_final

\* The directory once the override loop has unlinked the delete-set.
AfterDedup == [n \in FileNames |-> IF n \in files_to_delete_final THEN 0 ELSE fs[n]]

Survivors == {n \in Keys : n \notin files_to_delete_final}

DistinctSizes == \A m, n \in Keys : m # n => fs[m] # fs[n]

\* C28: under a single-keep mode, a symmetric mapping and distinct sizes, no
\* two files that survive the delete-set are members of one group, and
\* _resolve_duplicates over the directory without the deleted files, with the
\* same mapping, gives the empty delete-set.
C28_DedupCompleteIdempotent ==
    (rpc = "returned" /\ save_file_mode \in SingleKeep /\ SymmetricMapping
        /\ DistinctSizes) =>
        /\ \A m, n \in Survivors : m # n => ~Linked(m, n)
        /\ \A i \in GroupIds : Cardinality(Members(i) \ files_to_delete_final) <= 1
        /\ resolve_duplicates(AfterDedup, raw_duplicates, save_file_mode) = {}

C28_Witness ==
    /\ rpc = "returned" /\ save_file_mode \in SingleKeep /\ SymmetricMapping
    /\ DistinctSizes
    /\ \E m, n \in Keys : Linked(m, n)
    /\ files_to_delete_final # {}
    /\ Survivors # {}

\* The files some unit of the running batch has written.
WrittenByUnit(t) == {p \in DOMAIN t : t[p].by \notin {"orig", "stale"}}

\* The unit that removes its own intermediate file in this step.
RemovesOwn(p) ==
    \E u \in DOMAIN units :
        /\ units[u].pc = "copied" /\ units'[u].pc = "done"
        /\ units[u].tmp = p
        /\ tree[p].of = u

\* C29: while the units of a batch of the four image operations run, a file
\* written by one unit is never overwritten with the output of another input
\* and is removed only by the unit that wrote it.
C29_NoUnitClobbersAnother ==
    [][(bpc = "running" /\ bpc' = "running" /\ op # "dedup") =>
          \A p \in WrittenByUnit(tree) :
              IF p \in DOMAIN tree'
              THEN tree'[p].of = tree[p].of
              ELSE RemovesOwn(p)]_vars

\* Two override calls of Rotation.process on one file have both returned.
RotatedTwice ==
    /\ op = "rotation" /\ override
    /\ calls = 2 /\ ppc = "returned"

\* C30: the second of two override calls of Rotation.process with the same
\* target orientation and direction makes no rotation: the image keeps the
\* dimensions and the content the first call left, and no file changes.
C30_RotationIdempotent ==
    RotatedTwice =>
        /\ last.outcome = "keep"
        /\ last.output = last.input
        /\ image = last.input
        /\ tree = last.before

\* C30's case: the first call has turned the image.
C30_Witness ==
    /\ RotatedTwice
    /\ image.angle # 0
    /\ image.width # image.height

====
